---- MODULE Spec2Model ----
(***************************************************************************)
(* Model of the PACE scheduling engine (src/src/lib/scheduler.ts) and of   *)
(* the store that calls it (src/src/store/useStore.ts).                    *)
(*                                                                         *)
(* Numbers.  The scheduler computes with JavaScript numbers that are       *)
(* minutes, possibly fractional (0.5 * breaks, 0.3 * flexible time).  In   *)
(* this module every quantity of minutes is an integer count of ticks,     *)
(* TicksPerMinute ticks to the minute, so that 0.5x, 0.3x and 0.35x of a   *)
(* whole number of minutes are exact.  A Date is the number of ticks since *)
(* local midnight of config.date (no daylight-saving change in the day).   *)
(* A quantity of hours h is carried as h * 60 minutes in ticks.            *)
(* minHours / maxHours are given in quarters of an hour (HourDen).         *)
(* Optional fields (taskId?, originalMinutes?, minHours?, maxHours?) are   *)
(* sequences of length 0 (undefined) or 1.                                 *)
(*                                                                         *)
(* Sequencing.  Where the code assigns a local variable and then reads it  *)
(* several times, the value is bound once with  x \in {e}  and the result  *)
(* of the rest taken out of the one-element set with CHOOSE.               *)
(***************************************************************************)
EXTENDS Integers, Sequences, FiniteSets, TLC

VARIABLES tasks, config, amountToInteger, now, returned, repeated, store

vars == <<tasks, config, amountToInteger, now, returned, repeated, store>>

\* ------------------------------------------------------------------------
\* Bounds of the model
\* ------------------------------------------------------------------------
MaxTasks == 3

\* The store: the most tasks a day plan holds, and the last value of the
\* clock at which addTask or generateSchedule is still taken.
MaxStoreTasks == 2

MaxClock == 4

\* ------------------------------------------------------------------------
\* Number representation
\* ------------------------------------------------------------------------
TicksPerMinute == 100
HourDen == 4

M(minutes) == minutes * TicksPerMinute

Abs(x) == IF x < 0 THEN -x ELSE x

MinOf(a, b) == IF a <= b THEN a ELSE b

MaxOf(a, b) == IF a >= b THEN a ELSE b

\* Truncation of n/d toward zero (d > 0).
TruncDiv(n, d) == IF n >= 0 THEN n \div d ELSE -((-n) \div d)

\* Math.round of the quantity num/den minutes (num in ticks, den > 0):
\* the nearest whole minute, halves toward +infinity; result in ticks.
MathRound(num, den) ==
    ((2 * num + den * TicksPerMinute) \div (2 * den * TicksPerMinute)) * TicksPerMinute

\* Math.round(x / 60 * 10) for x in ticks of minutes: tenths of hours.
RoundTenthsOfHours(x) == (2 * x + 6 * TicksPerMinute) \div (12 * TicksPerMinute)

\* Number.prototype.toFixed(1) of a quantity of hours (carried as minutes in
\* ticks): the number of tenths shown, halves away from zero.
toFixed1(hours) ==
    LET t == (2 * Abs(hours) + 6 * TicksPerMinute) \div (12 * TicksPerMinute)
    IN  IF hours < 0 THEN -t ELSE t

\* ------------------------------------------------------------------------
\* date-fns
\* ------------------------------------------------------------------------
\* date-fns 2.x converts the amount with toInteger before adding; 3.x and
\* later add amount * 60000 ms unchanged.  amountToInteger says which.
toInteger(amount) == TruncDiv(amount, TicksPerMinute) * TicksPerMinute

addMinutes(date, amount) ==
    date + (IF amountToInteger THEN toInteger(amount) ELSE amount)

differenceInMinutes(dateLeft, dateRight) ==
    TruncDiv(dateLeft - dateRight, TicksPerMinute) * TicksPerMinute

getHours(date) == (date \div M(60)) % 24

getMinutes(date) == (date \div M(1)) % 60

setHours(date, hours) == date - getHours(date) * M(60) + hours * M(60)

setMinutes(date, minutes) == date - getMinutes(date) * M(1) + minutes * M(1)

\* ------------------------------------------------------------------------
\* Types
\* ------------------------------------------------------------------------
Intensity == {"low", "medium", "high"}

\* ------------------------------------------------------------------------
\* Intensity configuration
\* ------------------------------------------------------------------------
INTENSITY_CONFIG ==
    [i \in Intensity |->
        CASE i = "low" ->
               [breakDuration |-> M(20), breakFrequency |-> M(90),
                maxPhoneMinutes |-> M(60), maxLeisureMinutes |-> M(120),
                sleepReductionMinutes |-> M(0), minSleepHours |-> M(480)]
          [] i = "medium" ->
               [breakDuration |-> M(15), breakFrequency |-> M(90),
                maxPhoneMinutes |-> M(30), maxLeisureMinutes |-> M(60),
                sleepReductionMinutes |-> M(0), minSleepHours |-> M(450)]
          [] i = "high" ->
               [breakDuration |-> M(10), breakFrequency |-> M(120),
                maxPhoneMinutes |-> M(15), maxLeisureMinutes |-> M(30),
                sleepReductionMinutes |-> M(60), minSleepHours |-> M(390)]]

DEFAULT_WORK_BLOCK == 90
MEAL_DURATION == 30
MORNING_ROUTINE == 30

hasRange(task) == task.minHours # <<>> /\ task.maxHours # <<>>

\* Mutant: the medium midpoint is truncated instead of rounded, and the
\* low and high ends of the range are exchanged.
calculateWorkDuration_swapped(task, intensity) ==
    IF task.minHours = <<>> \/ task.maxHours = <<>>
    THEN M(DEFAULT_WORK_BLOCK)
    ELSE LET minMinutes == (task.minHours[1] * M(60)) \div HourDen
             maxMinutes == (task.maxHours[1] * M(60)) \div HourDen
         IN  CASE intensity = "low" -> maxMinutes
               [] intensity = "medium" ->
                    ((minMinutes + maxMinutes) \div M(2)) * M(1)
               [] intensity = "high" -> minMinutes
               [] OTHER -> M(DEFAULT_WORK_BLOCK)

calculateWorkDuration(task, intensity) ==
    IF task.minHours = <<>> \/ task.maxHours = <<>>
    THEN M(DEFAULT_WORK_BLOCK)
    ELSE LET minMinutes == (task.minHours[1] * M(60)) \div HourDen
             maxMinutes == (task.maxHours[1] * M(60)) \div HourDen
         IN  CASE intensity = "low" -> minMinutes
               [] intensity = "medium" -> MathRound(minMinutes + maxMinutes, 2)
               [] intensity = "high" -> maxMinutes
               [] OTHER -> M(DEFAULT_WORK_BLOCK)

\* ------------------------------------------------------------------------
\* Utility functions
\* ------------------------------------------------------------------------
\* `${Date.now()}-${Math.random()...}`: the clock of the call and a part
\* that differs from block to block (the position k of the block).
generateId(k) == <<now, k>>

\* Mutant: the time is set on the day of the call instead of config.date.
parseTime_today(timeStr, date) ==
    setMinutes(setHours(date + now * M(24 * 60), timeStr[1]), timeStr[2])

parseTime(timeStr, date) == setMinutes(setHours(date, timeStr[1]), timeStr[2])

RECURSIVE SumSeq(_)
SumSeq(s) == IF s = <<>> THEN 0 ELSE Head(s) + SumSeq(Tail(s))

Filter(s, Test(_)) == SelectSeq(s, Test)

Some(s, Test(_)) == \E i \in 1..Len(s) : Test(s[i])

\* ------------------------------------------------------------------------
\* Messages
\* ------------------------------------------------------------------------
\* A message is its fixed text and the sequence of the numbers formatted
\* into it (empty for a message without a number).
Msg(text) == [text |-> text, args |-> <<>>]

MsgArg(text, n) == [text |-> text, args |-> <<n>>]

WarnOverAllocated == "You have {}h more work than time allows. Consider removing a task or starting earlier."
TradeHigh == "High intensity mode. Work blocks are fully protected."
TradeRangeMax == "Work time ranges set to maximum for maximum productivity."
TradeBreaks == "Breaks shortened to maximize productive time."
TradePhoneMin == "Phone/social time minimized."
TradeLeisure == "Leisure time reduced to protect work."
TradeSleep == "Sleep adjusted to {}h (minimum 6.5h protected)."
TradeMedium == "Medium intensity. Balanced schedule with focused work time."
TradeRangeMid == "Work time ranges set to midpoint for balance."
TradePhoneLimited == "Phone time slightly limited."
TradeLow == "Low intensity day. Full recovery and balance prioritized."
TradeRangeMin == "Work time ranges set to minimum - more time for you."

\* ------------------------------------------------------------------------
\* Main scheduler: capacity computation (scheduler.ts 192-289)
\* ------------------------------------------------------------------------
isWork(t) == t.type = "work"

isEssential(t) == t.type = "essential" \/ t.type = "movement"

isPhone(t) == t.type = "phone" \/ t.type = "social"

isLeisure(t) == t.type = "leisure"

workDurationsOf(taskList, intensity) ==
    LET workTasks == Filter(taskList, isWork)
    IN  [i \in 1..Len(workTasks) |->
            [task |-> workTasks[i],
             duration |-> calculateWorkDuration(workTasks[i], intensity)]]

breaksNeededOf(workBlocksNeeded) == MaxOf(0, workBlocksNeeded)

\* First, reduce breaks (up to 50%).
maxBreakReductionOf(totalBreakMinutes) == totalBreakMinutes \div 2

\* Mutant: the whole shortfall is borrowed from sleep, without the ceiling of
\* sleepReductionMinutes.
sleepReductionOf_uncapped(flexibleTime, intensity) ==
    IF flexibleTime < 0 /\ intensity = "high"
    THEN Abs(flexibleTime)
    ELSE 0

\* Mutant: sleep is borrowed at every intensity, up to the 60 minutes of
\* high intensity.
sleepReductionOf_anyIntensity(flexibleTime, intensity) ==
    IF flexibleTime < 0
    THEN MinOf(Abs(flexibleTime), INTENSITY_CONFIG["high"].sleepReductionMinutes)
    ELSE 0

\* If still tight and HIGH intensity, reduce sleep.
sleepReductionOf(flexibleTime, intensity) ==
    IF flexibleTime < 0 /\ intensity = "high"
    THEN MinOf(Abs(flexibleTime), INTENSITY_CONFIG[intensity].sleepReductionMinutes)
    ELSE 0

phoneMinutesOf(flexibleTime, intensityConfig) ==
    IF flexibleTime > 0
    THEN MinOf(intensityConfig.maxPhoneMinutes, (flexibleTime * 3) \div 10)
    ELSE 0

leisureMinutesOf(flexibleTime, phoneMinutes, intensityConfig) ==
    IF flexibleTime > 0
    THEN MinOf(intensityConfig.maxLeisureMinutes, (flexibleTime - phoneMinutes) \div 2)
    ELSE 0

\* The values of the local variables of generateSchedule when the layout
\* begins (line 339).
Allocation(taskList, cfg) ==
    LET intensity == cfg.intensity
        intensityConfig == INTENSITY_CONFIG[intensity]
        wakeDate == parseTime(cfg.wakeTime, cfg.date)
        targetSleep0 == parseTime(cfg.targetSleepTime, cfg.date)
        availableMinutes0 == differenceInMinutes(targetSleep0, wakeDate)
        essentialTasks == Filter(taskList, isEssential)
        phoneTasks == Filter(taskList, isPhone)
        leisureTasks == Filter(taskList, isLeisure)
        workDurations == workDurationsOf(taskList, intensity)
        totalWorkMinutes == SumSeq([i \in 1..Len(workDurations) |-> workDurations[i].duration])
        workBlocksNeeded == Len(workDurations)
        totalEssentialMinutes ==
            SumSeq([i \in 1..Len(essentialTasks) |-> essentialTasks[i].estimatedMinutes])
        breaksNeeded == breaksNeededOf(workBlocksNeeded)
        totalBreakMinutes0 == breaksNeeded * intensityConfig.breakDuration
        fixedTime == M(MORNING_ROUTINE) + M(MEAL_DURATION)
        minimumRequired ==
            totalWorkMinutes + totalEssentialMinutes + totalBreakMinutes0 + fixedTime
        flexibleTime0 == availableMinutes0 - minimumRequired
        \* if (flexibleTime < 0) { reduce breaks
        breakReduction ==
            IF flexibleTime0 < 0
            THEN MinOf(Abs(flexibleTime0), maxBreakReductionOf(totalBreakMinutes0))
            ELSE 0
        breaksReduced == breakReduction > 0
        totalBreakMinutes == totalBreakMinutes0 - breakReduction
        flexibleTime1 == flexibleTime0 + breakReduction
        \* reduce sleep
        sleepReduction == sleepReductionOf(flexibleTime1, intensity)
        sleepReduced == sleepReduction > 0
        targetSleep ==
            IF sleepReduced THEN addMinutes(targetSleep0, sleepReduction) ELSE targetSleep0
        availableMinutes == availableMinutes0 + sleepReduction
        flexibleTime2 == flexibleTime1 + sleepReduction
        warnings ==
            IF flexibleTime2 < 0
            THEN << MsgArg(WarnOverAllocated, Abs(RoundTenthsOfHours(flexibleTime2))) >>
            ELSE << >>
        \* } allocate flexible time to phone and leisure
        phoneMinutes == phoneMinutesOf(flexibleTime2, intensityConfig)
        leisureMinutes == leisureMinutesOf(flexibleTime2, phoneMinutes, intensityConfig)
        flexibleTime == flexibleTime2 - phoneMinutes
    IN  [intensity |-> intensity,
         wakeDate |-> wakeDate,
         targetSleep0 |-> targetSleep0,
         targetSleep |-> targetSleep,
         availableMinutes |-> availableMinutes,
         essentialTasks |-> essentialTasks,
         phoneTasks |-> phoneTasks,
         leisureTasks |-> leisureTasks,
         workDurations |-> workDurations,
         totalWorkMinutes |-> totalWorkMinutes,
         totalEssentialMinutes |-> totalEssentialMinutes,
         breaksNeeded |-> breaksNeeded,
         nominalBreakMinutes |-> totalBreakMinutes0,
         totalBreakMinutes |-> totalBreakMinutes,
         minimumRequired |-> minimumRequired,
         initialFlexibleTime |-> flexibleTime0,
         flexibleAfterBreaks |-> flexibleTime1,
         flexibleAfterReductions |-> flexibleTime2,
         flexibleTime |-> flexibleTime,
         breakReduction |-> breakReduction,
         sleepReduction |-> sleepReduction,
         breaksReduced |-> breaksReduced,
         sleepReduced |-> sleepReduced,
         phoneMinutes |-> phoneMinutes,
         leisureMinutes |-> leisureMinutes,
         phoneReduced |-> (Len(phoneTasks) > 0 /\ phoneMinutes < M(30)),
         leisureReduced |-> (Len(leisureTasks) > 0 /\ leisureMinutes < M(30)),
         warnings |-> warnings]

\* ------------------------------------------------------------------------
\* Main scheduler: tradeoff messages (scheduler.ts 291-333)
\* ------------------------------------------------------------------------
Opt(cond, msg) == IF cond THEN <<msg>> ELSE <<>>

isRanged(wd) == hasRange(wd.task)

tradeoffsOf(a, cfg) ==
    LET rangedWorkTasks == Filter(a.workDurations, isRanged)
        sleepHours ==
            differenceInMinutes(
                addMinutes(parseTime(cfg.wakeTime, cfg.date), M(24 * 60)),
                a.targetSleep)
    IN  CASE a.intensity = "high" ->
               <<Msg(TradeHigh)>>
               \o Opt(Len(rangedWorkTasks) > 0, Msg(TradeRangeMax))
               \o Opt(a.breaksReduced, Msg(TradeBreaks))
               \o Opt(a.phoneReduced \/ Len(a.phoneTasks) > 0, Msg(TradePhoneMin))
               \o Opt(a.leisureReduced \/ Len(a.leisureTasks) > 0, Msg(TradeLeisure))
               \o Opt(a.sleepReduced, MsgArg(TradeSleep, toFixed1(sleepHours)))
          [] a.intensity = "medium" ->
               <<Msg(TradeMedium)>>
               \o Opt(Len(rangedWorkTasks) > 0, Msg(TradeRangeMid))
               \o Opt(a.phoneReduced, Msg(TradePhoneLimited))
          [] OTHER ->
               <<Msg(TradeLow)>>
               \o Opt(Len(rangedWorkTasks) > 0, Msg(TradeRangeMin))

\* ------------------------------------------------------------------------
\* Main scheduler: building the schedule (scheduler.ts 335-490)
\* ------------------------------------------------------------------------
Label(text) == [text |-> text, args |-> <<>>]

LabelHours(text, hours) == [text |-> text, args |-> <<toFixed1(hours)>>]

isLunch(b) == b.label = Label("Lunch")

\* blocks.push({...}); currentTime = addMinutes(currentTime, minutes)
push(st, minutes, label, type, taskId, isReduced, originalMinutes) ==
    [blocks |-> Append(st.blocks,
                  [id |-> generateId(Len(st.blocks) + 1),
                   start |-> st.currentTime,
                   end |-> addMinutes(st.currentTime, minutes),
                   label |-> label,
                   type |-> type,
                   taskId |-> taskId,
                   isReduced |-> isReduced,
                   originalMinutes |-> originalMinutes]),
     currentTime |-> addMinutes(st.currentTime, minutes)]

\* Mutant: the shortened break length is used whether or not breaks were
\* reduced.
layoutBreakDuration_alwaysShort(a) ==
    MathRound(INTENSITY_CONFIG[a.intensity].breakDuration * 6, 10)

layoutBreakDuration(a) ==
    IF a.breaksReduced
    THEN MathRound(INTENSITY_CONFIG[a.intensity].breakDuration * 6, 10)
    ELSE INTENSITY_CONFIG[a.intensity].breakDuration

pushLunch(st) == push(st, M(MEAL_DURATION), Label("Lunch"), "meal", <<>>, FALSE, <<>>)

\* Mutant: the Lunch block is pushed in the work loop but the cursor is not
\* moved past it.
lunchInLoop_cursorKept(st) ==
    LET currentHour == getHours(st.currentTime)
    IN  IF currentHour >= 12 /\ currentHour < 14 /\ ~Some(st.blocks, isLunch)
        THEN [blocks |-> pushLunch(st).blocks, currentTime |-> st.currentTime]
        ELSE st

\* Check if it's lunch time (around noon-1pm)
lunchInLoop(st) ==
    LET currentHour == getHours(st.currentTime)
    IN  IF currentHour >= 12 /\ currentHour < 14 /\ ~Some(st.blocks, isLunch)
        THEN pushLunch(st)
        ELSE st

\* Mutant: the work block gets the task's estimatedMinutes instead of the
\* duration computed for it.
pushWork_estimated(st, wd) ==
    push(st, wd.task.estimatedMinutes,
         IF hasRange(wd.task) THEN LabelHours(wd.task.title, wd.duration)
                              ELSE Label(wd.task.title),
         "work", <<wd.task.id>>, FALSE, <<>>)

pushWork(st, wd) ==
    push(st, wd.duration,
         IF hasRange(wd.task) THEN LabelHours(wd.task.title, wd.duration)
                              ELSE Label(wd.task.title),
         "work", <<wd.task.id>>, FALSE, <<>>)

\* Mutant: the 5-minute bonus is given from 120 minutes of work on, instead
\* of for more than 120 minutes.
adjustedBreakOf_from120(duration, breakDuration) ==
    IF duration >= M(120) THEN breakDuration + M(5) ELSE breakDuration

\* Longer breaks for longer work blocks
adjustedBreakOf(duration, breakDuration) ==
    IF duration > M(120) THEN breakDuration + M(5) ELSE breakDuration

\* Mutant: a break is pushed after the last work block too.
pushBreak_afterLast(st, a, index) ==
    IF index <= Len(a.workDurations)
    THEN push(st,
              adjustedBreakOf(a.workDurations[index].duration, layoutBreakDuration(a)),
              Label("Break"), "break", <<>>, a.breaksReduced,
              IF a.breaksReduced THEN <<INTENSITY_CONFIG[a.intensity].breakDuration>>
                                 ELSE <<>>)
    ELSE st

\* Break after work block (except last one)
pushBreak(st, a, index) ==
    IF index < Len(a.workDurations)
    THEN push(st,
              adjustedBreakOf(a.workDurations[index].duration, layoutBreakDuration(a)),
              Label("Break"), "break", <<>>, a.breaksReduced,
              IF a.breaksReduced THEN <<INTENSITY_CONFIG[a.intensity].breakDuration>>
                                 ELSE <<>>)
    ELSE st

\* workDurations.forEach, from the element at position index (1-based) on
RECURSIVE workLoop(_, _, _)
workLoop(st, a, index) ==
    IF index > Len(a.workDurations)
    THEN st
    ELSE CHOOSE r \in
           { workLoop(next, a, index + 1) :
               next \in { pushBreak(pushWork(lunchInLoop(st), a.workDurations[index]),
                                    a, index) } } : TRUE

\* Add lunch if not added yet
lunchAfterWork(st) == IF ~Some(st.blocks, isLunch) THEN pushLunch(st) ELSE st

\* Mutant: an essential or movement block gets at most 30 minutes and is
\* marked reduced when that is less than the task's estimatedMinutes.
pushEssential_capped(st, task) ==
    push(st, MinOf(task.estimatedMinutes, M(30)), Label(task.title), task.type,
         <<task.id>>, task.estimatedMinutes > M(30), <<>>)

\* The body of essentialTasks.forEach
pushEssential(st, task) ==
    push(st, task.estimatedMinutes, Label(task.title), task.type,
         <<task.id>>, FALSE, <<>>)

\* Schedule essential tasks, from the element at position index on
RECURSIVE essentialLoop(_, _, _)
essentialLoop(st, essentialTasks, index) ==
    IF index > Len(essentialTasks)
    THEN st
    ELSE CHOOSE r \in
           { essentialLoop(next, essentialTasks, index + 1) :
               next \in { pushEssential(st, essentialTasks[index]) } } : TRUE

\* Mutant: the phone block is marked reduced whenever it gets less than 30
\* minutes, whether or not a phone or social task was requested.
pushPhone_reducedUnrequested(st, a) ==
    IF a.phoneMinutes >= M(10)
    THEN LET originalRequest == IF Len(a.phoneTasks) > 0 THEN <<M(60)>> ELSE <<>>
         IN  push(st, a.phoneMinutes,
                  IF Len(a.phoneTasks) > 0 THEN Label(a.phoneTasks[1].title)
                                          ELSE Label("Phone / Social Time"),
                  "phone", <<>>, a.phoneMinutes < M(30),
                  IF a.phoneMinutes < M(30) THEN originalRequest ELSE <<>>)
    ELSE st

\* Phone/social time (if allocated)
pushPhone(st, a) ==
    IF a.phoneMinutes >= M(10)
    THEN LET originalRequest == IF Len(a.phoneTasks) > 0 THEN <<M(60)>> ELSE <<>>
         IN  push(st, a.phoneMinutes,
                  IF Len(a.phoneTasks) > 0 THEN Label(a.phoneTasks[1].title)
                                          ELSE Label("Phone / Social Time"),
                  "phone", <<>>, a.phoneReduced,
                  IF a.phoneReduced THEN originalRequest ELSE <<>>)
    ELSE st

\* Mutant: the leisure block carries the id of the first leisure task.
pushLeisure_withTaskId(st, a) ==
    IF a.leisureMinutes >= M(15)
    THEN LET originalRequest == IF Len(a.leisureTasks) > 0 THEN <<M(60)>> ELSE <<>>
         IN  push(st, a.leisureMinutes,
                  IF Len(a.leisureTasks) > 0 THEN Label(a.leisureTasks[1].title)
                                            ELSE Label("Free Time"),
                  "leisure",
                  IF Len(a.leisureTasks) > 0 THEN <<a.leisureTasks[1].id>> ELSE <<>>,
                  a.leisureReduced,
                  IF a.leisureReduced THEN originalRequest ELSE <<>>)
    ELSE st

\* Leisure time (if allocated)
pushLeisure(st, a) ==
    IF a.leisureMinutes >= M(15)
    THEN LET originalRequest == IF Len(a.leisureTasks) > 0 THEN <<M(60)>> ELSE <<>>
         IN  push(st, a.leisureMinutes,
                  IF Len(a.leisureTasks) > 0 THEN Label(a.leisureTasks[1].title)
                                            ELSE Label("Free Time"),
                  "leisure", <<>>, a.leisureReduced,
                  IF a.leisureReduced THEN originalRequest ELSE <<>>)
    ELSE st

\* Mutant: the wind-down takes all the time left before the target sleep
\* time instead of at most 30 minutes.
pushWindDown_uncapped(st, a) ==
    LET timeUntilSleep == differenceInMinutes(a.targetSleep, st.currentTime)
    IN  IF timeUntilSleep > M(15)
        THEN push(st, timeUntilSleep, Label("Evening Wind-down"),
                  "leisure", <<>>, FALSE, <<>>)
        ELSE st

\* Mutant: the wind-down is pushed from 10 minutes of remaining time on.
pushWindDown_from10(st, a) ==
    LET timeUntilSleep == differenceInMinutes(a.targetSleep, st.currentTime)
    IN  IF timeUntilSleep >= M(10)
        THEN push(st, MinOf(M(30), timeUntilSleep), Label("Evening Wind-down"),
                  "leisure", <<>>, FALSE, <<>>)
        ELSE st

\* Evening wind-down (remaining time before sleep)
pushWindDown(st, a) ==
    LET timeUntilSleep == differenceInMinutes(a.targetSleep, st.currentTime)
    IN  IF timeUntilSleep > M(15)
        THEN push(st, MinOf(M(30), timeUntilSleep), Label("Evening Wind-down"),
                  "leisure", <<>>, FALSE, <<>>)
        ELSE st

actualSleepMinutesOf(st, a) ==
    differenceInMinutes(addMinutes(a.wakeDate, M(24 * 60)), st.currentTime)

pushSleep(st, a) ==
    LET nextDayWake == addMinutes(a.wakeDate, M(24 * 60))
        actualSleepHours == actualSleepMinutesOf(st, a)
    IN  [blocks |-> Append(st.blocks,
                      [id |-> generateId(Len(st.blocks) + 1),
                       start |-> st.currentTime,
                       end |-> nextDayWake,
                       label |-> LabelHours("Sleep", actualSleepHours),
                       type |-> "sleep",
                       taskId |-> <<>>,
                       isReduced |-> a.sleepReduced,
                       originalMinutes |-> <<>>]),
         currentTime |-> st.currentTime]

pushMorningRoutine(a) ==
    push([blocks |-> <<>>, currentTime |-> a.wakeDate], M(MORNING_ROUTINE),
         Label("Morning Routine"), "essential", <<>>, FALSE, <<>>)

\* Mutant: the Lunch left unplaced by the work loop is pushed after the
\* essential tasks instead of before them.
beforeSleep_lunchAfterEssential(a) ==
    CHOOSE r \in
      { pushWindDown(s6, a) :
        s6 \in { pushLeisure(s5, a) :
        s5 \in { pushPhone(s4, a) :
        s4 \in { lunchAfterWork(s3) :
        s3 \in { essentialLoop(s2, a.essentialTasks, 1) :
        s2 \in { workLoop(s1, a, 1) :
        s1 \in { pushMorningRoutine(a) } } } } } } } : TRUE

\* Mutant: the leisure block is pushed before the phone block.
beforeSleep_leisureFirst(a) ==
    CHOOSE r \in
      { pushWindDown(s6, a) :
        s6 \in { pushPhone(s5, a) :
        s5 \in { pushLeisure(s4, a) :
        s4 \in { essentialLoop(s3, a.essentialTasks, 1) :
        s3 \in { lunchAfterWork(s2) :
        s2 \in { workLoop(s1, a, 1) :
        s1 \in { pushMorningRoutine(a) } } } } } } } : TRUE

\* The layout cursor and block list before the sleep block is pushed.
beforeSleep(a) ==
    CHOOSE r \in
      { pushWindDown(s6, a) :
        s6 \in { pushLeisure(s5, a) :
        s5 \in { pushPhone(s4, a) :
        s4 \in { essentialLoop(s3, a.essentialTasks, 1) :
        s3 \in { lunchAfterWork(s2) :
        s2 \in { workLoop(s1, a, 1) :
        s1 \in { pushMorningRoutine(a) } } } } } } } : TRUE

\* ------------------------------------------------------------------------
\* Main scheduler: statistics and result (scheduler.ts 492-511)
\* ------------------------------------------------------------------------
Duration(b) == differenceInMinutes(b.end, b.start)

SumDurations(blocks, Test(_)) ==
    LET sel == Filter(blocks, Test)
    IN  SumSeq([i \in 1..Len(sel) |-> Duration(sel[i])])

isWorkBlock(b) == b.type = "work"

isBreakBlock(b) == b.type = "break"

isPhoneBlock(b) == b.type = "phone" \/ b.type = "social"

isLeisureBlock(b) == b.type = "leisure"

isSleepBlock(b) == b.type = "sleep"

statsOf(blocks, st, a) ==
    [totalWorkMinutes |-> SumDurations(blocks, isWorkBlock),
     totalBreakMinutes |-> SumDurations(blocks, isBreakBlock),
     totalPhoneMinutes |-> SumDurations(blocks, isPhoneBlock),
     totalLeisureMinutes |-> SumDurations(blocks, isLeisureBlock),
     sleepHours |-> actualSleepMinutesOf(st, a),
     sleepReduced |-> a.sleepReduced]

resultOf(a, st, blocks, cfg) ==
    [blocks |-> blocks,
     tradeoffs |-> tradeoffsOf(a, cfg),
     warnings |-> a.warnings,
     stats |-> statsOf(blocks, st, a)]

layoutOf(a, cfg) ==
    CHOOSE r \in
      { resultOf(a, st, pushSleep(st, a).blocks, cfg) : st \in { beforeSleep(a) } } : TRUE

generateSchedule(taskList, cfg) ==
    CHOOSE r \in { layoutOf(a, cfg) : a \in { Allocation(taskList, cfg) } } : TRUE

\* ------------------------------------------------------------------------
\* Inputs
\* ------------------------------------------------------------------------
\* SYSTEM_DURATIONS of the task input view: the duration the system assigns
\* to a task of each user-creatable type.
SYSTEM_DURATIONS ==
    [t \in {"work", "essential", "movement", "phone", "social", "leisure"} |->
        CASE t = "work" -> M(90)
          [] t = "essential" -> M(30)
          [] t = "movement" -> M(45)
          [] t = "phone" -> M(30)
          [] t = "social" -> M(60)
          [] t = "leisure" -> M(60)]

\* A Task without its id (the fields addTask fills in, and the optional
\* range of a work task).
NewTask(title, type, minHours, maxHours) ==
    [title |-> title,
     type |-> type,
     estimatedMinutes |-> SYSTEM_DURATIONS[type],
     isFlexible |-> (type # "work" /\ type # "essential"),
     minHours |-> minHours,
     maxHours |-> maxHours]

\* The tasks the inputs are drawn from: work without a range, work for
\* 2-4 h, work for 4-8.25 h, a work task titled "Lunch" that declares only
\* minHours, and one task of every other type the task input view offers.
TaskChoices ==
    { NewTask("Write report", "work", <<>>, <<>>),
      NewTask("Code feature", "work", <<2 * HourDen>>, <<4 * HourDen>>),
      NewTask("Design mockup", "work", <<4 * HourDen>>, <<8 * HourDen + 1>>),
      NewTask("Lunch", "work", <<2 * HourDen>>, <<>>),
      NewTask("Doctor appointment", "essential", <<>>, <<>>),
      NewTask("Gym", "movement", <<>>, <<>>),
      NewTask("Call mom", "phone", <<>>, <<>>),
      NewTask("Read", "leisure", <<>>, <<>>) }

\* Task ids are unique: the task at position i has id i.
WithIds(list) ==
    [i \in 1..Len(list) |->
        [id |-> i,
         title |-> list[i].title,
         type |-> list[i].type,
         estimatedMinutes |-> list[i].estimatedMinutes,
         isFlexible |-> list[i].isFlexible,
         minHours |-> list[i].minHours,
         maxHours |-> list[i].maxHours]]

TaskLists ==
    { WithIds(l) : l \in UNION { [1..n -> TaskChoices] : n \in 0..MaxTasks } }

\* "HH:mm" strings, as <<HH, mm>>.
WakeTimes == { <<7, 0>> }

SleepTimes == { <<23, 0>>, <<23, 45>>, <<1, 0>> }

Configs ==
    [wakeTime : WakeTimes, targetSleepTime : SleepTimes,
     intensity : Intensity, date : {0}]

\* ------------------------------------------------------------------------
\* The store (src/src/store/useStore.ts)
\* ------------------------------------------------------------------------
\* The state of the store is the record store; dayPlans is a function from
\* the dates that have a plan to the plan.  A DayPlan is carried without its
\* id, createdAt and updatedAt, which no action reads.  A block of a plan has
\* the optional field isCompleted (a sequence of length 0 or 1).
defaultPreferences ==
    [defaultWakeTime |-> <<7, 0>>,
     defaultSleepTime |-> <<23, 0>>,
     defaultIntensity |-> "medium"]

defaultSettings == [theme |-> "dark", soundEffects |-> TRUE, animationsEnabled |-> TRUE]

\* The dates the actions are called with ("yyyy-MM-dd").
StoreDates == {"2026-11-05"}

defaultNavigation == [currentView |-> "input", selectedDate |-> "2026-11-05"]

initialState ==
    [dayPlans |-> [d \in {} |-> <<>>],
     preferences |-> defaultPreferences,
     navigation |-> defaultNavigation,
     settings |-> defaultSettings]

createEmptyPlan(date, preferences) ==
    [date |-> date,
     intensity |-> preferences.defaultIntensity,
     wakeTime |-> preferences.defaultWakeTime,
     sleepTime |-> preferences.defaultSleepTime,
     tasks |-> <<>>,
     blocks |-> <<>>,
     tradeoffs |-> <<>>,
     warnings |-> <<>>,
     isGenerated |-> FALSE]

hasPlan(s, date) == date \in DOMAIN s.dayPlans

\* { ...s.dayPlans, [date]: plan }
withPlan(s, date, plan) ==
    [s EXCEPT !.dayPlans =
        [d \in DOMAIN s.dayPlans \cup {date} |-> IF d = date THEN plan ELSE s.dayPlans[d]]]

getOrCreatePlan(s, date) ==
    IF hasPlan(s, date)
    THEN s
    ELSE withPlan(s, date, createEmptyPlan(date, s.preferences))

setIntensity(s, date, intensity) ==
    IF ~hasPlan(s, date)
    THEN s
    ELSE withPlan(s, date,
            [s.dayPlans[date] EXCEPT !.intensity = intensity, !.isGenerated = FALSE])

setWakeTime(s, date, time) ==
    IF ~hasPlan(s, date)
    THEN s
    ELSE withPlan(s, date,
            [s.dayPlans[date] EXCEPT !.wakeTime = time, !.isGenerated = FALSE])

setSleepTime(s, date, time) ==
    IF ~hasPlan(s, date)
    THEN s
    ELSE withPlan(s, date,
            [s.dayPlans[date] EXCEPT !.sleepTime = time, !.isGenerated = FALSE])

\* The Task that addTask builds; its id is taken from the clock.
storeTask(title, type, estimatedMinutes) ==
    [id |-> now,
     title |-> title,
     type |-> type,
     estimatedMinutes |-> estimatedMinutes,
     isFlexible |-> (type # "work" /\ type # "essential"),
     minHours |-> <<>>,
     maxHours |-> <<>>]

addTask(s, date, title, type, estimatedMinutes) ==
    LET plan == IF hasPlan(s, date) THEN s.dayPlans[date]
                ELSE createEmptyPlan(date, s.preferences)
    IN  withPlan(s, date,
            [plan EXCEPT !.tasks = Append(plan.tasks, storeTask(title, type, estimatedMinutes)),
                         !.isGenerated = FALSE])

\* Mutant: removing a task leaves isGenerated as it was.
removeTask_keepsGenerated(s, date, taskId) ==
    IF ~hasPlan(s, date)
    THEN s
    ELSE withPlan(s, date,
            [s.dayPlans[date] EXCEPT
                !.tasks = Filter(s.dayPlans[date].tasks, LAMBDA t : t.id # taskId)])

removeTask(s, date, taskId) ==
    IF ~hasPlan(s, date)
    THEN s
    ELSE withPlan(s, date,
            [s.dayPlans[date] EXCEPT
                !.tasks = Filter(s.dayPlans[date].tasks, LAMBDA t : t.id # taskId),
                !.isGenerated = FALSE])

\* { ...t, ...updates }
spread(t, updates) ==
    [f \in DOMAIN t \cup DOMAIN updates |-> IF f \in DOMAIN updates THEN updates[f] ELSE t[f]]

updateTask(s, date, taskId, updates) ==
    IF ~hasPlan(s, date)
    THEN s
    ELSE withPlan(s, date,
            [s.dayPlans[date] EXCEPT
                !.tasks = [i \in 1..Len(s.dayPlans[date].tasks) |->
                              LET t == s.dayPlans[date].tasks[i]
                              IN  IF t.id = taskId THEN spread(t, updates) ELSE t],
                !.isGenerated = FALSE])

\* plan.tasks.map((t) => ({ id, title, type, estimatedMinutes, isFlexible })):
\* the range of a task is not passed on.
schedulerTasksOf(plan) ==
    [i \in 1..Len(plan.tasks) |->
        [id |-> plan.tasks[i].id,
         title |-> plan.tasks[i].title,
         type |-> plan.tasks[i].type,
         estimatedMinutes |-> plan.tasks[i].estimatedMinutes,
         isFlexible |-> plan.tasks[i].isFlexible,
         minHours |-> <<>>,
         maxHours |-> <<>>]]

\* The config of the call; the times of a schedule are counted from the
\* plan's date.
schedulerConfigOf(plan) ==
    [wakeTime |-> plan.wakeTime,
     targetSleepTime |-> plan.sleepTime,
     intensity |-> plan.intensity,
     date |-> 0]

\* A block as the scheduler returns it: isCompleted is undefined.
storedBlock(b) ==
    [id |-> b.id, start |-> b.start, end |-> b.end, label |-> b.label,
     type |-> b.type, taskId |-> b.taskId, isReduced |-> b.isReduced,
     originalMinutes |-> b.originalMinutes, isCompleted |-> <<>>]

storeGenerateSchedule(s, date) ==
    IF ~hasPlan(s, date) \/ s.dayPlans[date].tasks = <<>>
    THEN s
    ELSE CHOOSE next \in
           { [withPlan(s, date,
                [s.dayPlans[date] EXCEPT
                    !.blocks = [i \in 1..Len(r.blocks) |-> storedBlock(r.blocks[i])],
                    !.tradeoffs = r.tradeoffs,
                    !.warnings = r.warnings,
                    !.isGenerated = TRUE])
              EXCEPT !.navigation.currentView = "schedule"] :
             r \in { generateSchedule(schedulerTasksOf(s.dayPlans[date]),
                                      schedulerConfigOf(s.dayPlans[date])) } } : TRUE

regenerateSchedule(s, date) ==
    IF ~hasPlan(s, date)
    THEN s
    ELSE storeGenerateSchedule(
            withPlan(s, date,
                [s.dayPlans[date] EXCEPT !.isGenerated = FALSE, !.blocks = <<>>]),
            date)

\* !b.isCompleted
toggled(isCompleted) == IF isCompleted = <<TRUE>> THEN <<FALSE>> ELSE <<TRUE>>

markBlockComplete(s, date, blockId) ==
    IF ~hasPlan(s, date)
    THEN s
    ELSE withPlan(s, date,
            [s.dayPlans[date] EXCEPT
                !.blocks = [i \in 1..Len(s.dayPlans[date].blocks) |->
                               LET b == s.dayPlans[date].blocks[i]
                               IN  IF b.id = blockId
                                   THEN [b EXCEPT !.isCompleted = toggled(b.isCompleted)]
                                   ELSE b]])

reset == initialState

\* ------------------------------------------------------------------------
\* Specification: a caller holds a task list and a config, calls
\* generateSchedule, and calls it a second time with the same arguments.
\* returned and repeated hold what the first and the second call returned
\* (empty before the call).
\* ------------------------------------------------------------------------
Init ==
    /\ tasks \in TaskLists
    /\ config \in Configs
    /\ amountToInteger \in BOOLEAN
    /\ now = 1
    /\ returned = <<>>
    /\ repeated = <<>>
    /\ store = initialState

Generate ==
    /\ returned = <<>>
    /\ returned' = <<generateSchedule(tasks, config)>>
    /\ now' = now + 1
    /\ UNCHANGED <<tasks, config, amountToInteger, repeated, store>>

GenerateAgain ==
    /\ returned # <<>>
    /\ repeated = <<>>
    /\ repeated' = <<generateSchedule(tasks, config)>>
    /\ now' = now + 1
    /\ UNCHANGED <<tasks, config, amountToInteger, returned, store>>

Next == Generate \/ GenerateAgain

Spec == Init /\ [][Next]_vars

\* ------------------------------------------------------------------------
\* Specification of the store: the actions of useStore are called in any
\* order with arguments drawn from small sets.  The clock advances at every
\* call that generates ids (addTask, generateSchedule, regenerateSchedule).
\* ------------------------------------------------------------------------
\* What the task input view passes to addTask.
StoreTaskInputs ==
    { <<"Write report", "work", SYSTEM_DURATIONS["work"]>>,
      <<"Call mom", "phone", SYSTEM_DURATIONS["phone"]>> }

StoreIntensities == {"medium", "high"}

StoreWakeTimes == { <<7, 0>>, <<8, 0>> }

StoreSleepTimes == { <<23, 0>>, <<22, 0>> }

\* Partial<Task> values passed to updateTask.
StoreUpdates ==
    { [minHours |-> <<2 * HourDen>>, maxHours |-> <<4 * HourDen>>] }

\* The ids the callers pass: the ids of the plan's tasks and an id of none.
taskIdsOf(s, date) ==
    IF hasPlan(s, date)
    THEN { s.dayPlans[date].tasks[i].id : i \in 1..Len(s.dayPlans[date].tasks) }
    ELSE {}

\* The block ids the schedule view passes: the first block of the plan and
\* the first block of a task.
blockIdsOf(s, date) ==
    IF hasPlan(s, date)
    THEN LET blocks == s.dayPlans[date].blocks
         IN  { blocks[i].id : i \in { j \in 1..Len(blocks) :
                   j = 1 \/ (blocks[j].taskId # <<>> /\ \A k \in 1..(j - 1) : blocks[k].taskId = <<>>) } }
    ELSE {}

schedulerVars == <<tasks, config, amountToInteger, returned, repeated>>

StoreInit ==
    /\ tasks = <<>>
    /\ config \in { schedulerConfigOf(createEmptyPlan(d, defaultPreferences)) : d \in StoreDates }
    /\ amountToInteger \in BOOLEAN
    /\ now = 1
    /\ returned = <<>>
    /\ repeated = <<>>
    /\ store = initialState

GetOrCreatePlan ==
    \E date \in StoreDates :
        /\ store' = getOrCreatePlan(store, date)
        /\ UNCHANGED <<schedulerVars, now>>

SetIntensity ==
    \E date \in StoreDates, intensity \in StoreIntensities :
        /\ store' = setIntensity(store, date, intensity)
        /\ UNCHANGED <<schedulerVars, now>>

SetWakeTime ==
    \E date \in StoreDates, time \in StoreWakeTimes :
        /\ store' = setWakeTime(store, date, time)
        /\ UNCHANGED <<schedulerVars, now>>

SetSleepTime ==
    \E date \in StoreDates, time \in StoreSleepTimes :
        /\ store' = setSleepTime(store, date, time)
        /\ UNCHANGED <<schedulerVars, now>>

AddTask ==
    \E date \in StoreDates, input \in StoreTaskInputs :
        /\ now < MaxClock
        /\ hasPlan(store, date) => Len(store.dayPlans[date].tasks) < MaxStoreTasks
        /\ store' = addTask(store, date, input[1], input[2], input[3])
        /\ now' = now + 1
        /\ UNCHANGED schedulerVars

RemoveTask ==
    \E date \in StoreDates :
        \E taskId \in taskIdsOf(store, date) \cup {0} :
            /\ store' = removeTask(store, date, taskId)
            /\ UNCHANGED <<schedulerVars, now>>

UpdateTask ==
    \E date \in StoreDates, updates \in StoreUpdates :
        \E taskId \in taskIdsOf(store, date) \cup {0} :
            /\ store' = updateTask(store, date, taskId, updates)
            /\ UNCHANGED <<schedulerVars, now>>

GenerateSchedule ==
    \E date \in StoreDates :
        /\ now < MaxClock
        /\ store' = storeGenerateSchedule(store, date)
        /\ now' = now + 1
        /\ UNCHANGED schedulerVars

RegenerateSchedule ==
    \E date \in StoreDates :
        /\ now < MaxClock
        /\ store' = regenerateSchedule(store, date)
        /\ now' = now + 1
        /\ UNCHANGED schedulerVars

MarkBlockComplete ==
    \E date \in StoreDates :
        \E blockId \in blockIdsOf(store, date) \cup {<<0, 0>>} :
            /\ store' = markBlockComplete(store, date, blockId)
            /\ UNCHANGED <<schedulerVars, now>>

Reset ==
    /\ store' = reset
    /\ UNCHANGED <<schedulerVars, now>>

StoreNext ==
    \/ GetOrCreatePlan
    \/ SetIntensity
    \/ SetWakeTime
    \/ SetSleepTime
    \/ AddTask
    \/ RemoveTask
    \/ UpdateTask
    \/ GenerateSchedule
    \/ RegenerateSchedule
    \/ MarkBlockComplete
    \/ Reset

StoreSpec == StoreInit /\ [][StoreNext]_vars

\* The result of the first call and what was computed for it.
called == returned # <<>>

result == returned[1]

alloc == Allocation(tasks, config)

\* ------------------------------------------------------------------------
\* Properties
\* ------------------------------------------------------------------------
Last(s) == s[Len(s)]

wakeOfConfig == M(config.wakeTime[1] * 60 + config.wakeTime[2])

workBlocksOf(r) == Filter(r.blocks, isWorkBlock)

breakBlocksOf(r) == Filter(r.blocks, isBreakBlock)

sleepBlocksOf(r) == Filter(r.blocks, isSleepBlock)

Contiguous(blocks) ==
    /\ Len(blocks) >= 1
    /\ blocks[1].start = wakeOfConfig
    /\ \A i \in 1..(Len(blocks) - 1) : blocks[i].end = blocks[i + 1].start
    /\ Last(blocks).end = wakeOfConfig + M(24 * 60)

\* C1: the blocks of every returned schedule are contiguous: each block ends
\* where the next one starts, the first block starts at the wake time and the
\* last block ends 24 hours after the wake time.
C1_Contiguity == called => Contiguous(result.blocks)

\* A call returned for an over-allocated day in which Lunch was inserted in
\* the work loop and a break follows a work block.
C1_Witness ==
    /\ called
    /\ result.warnings # <<>>
    /\ \E i \in 2..(Len(result.blocks) - 2) :
          /\ isLunch(result.blocks[i])
          /\ result.blocks[i + 1].type = "work"
          /\ result.blocks[i - 1].type = "break"

\* C2: the work blocks of the output last, together, as long as the work
\* durations computed before allocation, whatever the sign of the flexible
\* time, and no work block is marked reduced.
C2_WorkProtected ==
    called =>
        /\ SumDurations(result.blocks, isWorkBlock) = alloc.totalWorkMinutes
        /\ Len(workBlocksOf(result)) = Len(alloc.workDurations)
        /\ \A i \in 1..Len(workBlocksOf(result)) :
              ~workBlocksOf(result)[i].isReduced

\* A call returned with a ranged work block although the flexible time stayed
\* negative after every reduction.
C2_Witness ==
    /\ called
    /\ alloc.flexibleAfterReductions < 0
    /\ \E i \in 1..Len(alloc.workDurations) :
          /\ hasRange(alloc.workDurations[i].task)
          /\ alloc.workDurations[i].duration # M(DEFAULT_WORK_BLOCK)
    /\ Len(workBlocksOf(result)) >= 2

sleepBlockOf(r) == Last(r.blocks)

\* C3: at high intensity the sleep block lasts at least the configured
\* minimum of 6.5 hours.
C3_SleepFloor ==
    (called /\ config.intensity = "high") =>
            /\ sleepBlockOf(result).type = "sleep"
            /\ sleepBlockOf(result).end - sleepBlockOf(result).start
                  >= INTENSITY_CONFIG["high"].minSleepHours

\* C4: every block of every generated schedule ends strictly after it starts.
C4_PositiveDurations ==
    called =>
        \A i \in 1..Len(result.blocks) :
            result.blocks[i].end > result.blocks[i].start

\* C5: whenever the sleep block is marked reduced and break blocks exist,
\* every break block is marked reduced and lasts 50% of its originalMinutes.
C5_BreaksAtFloorBeforeSleep ==
    (called /\ sleepBlockOf(result).isReduced /\ Len(breakBlocksOf(result)) > 0) =>
            \A i \in 1..Len(breakBlocksOf(result)) :
                LET b == breakBlocksOf(result)[i]
                IN  /\ b.isReduced
                    /\ b.originalMinutes # <<>>
                    /\ 2 * Duration(b) = b.originalMinutes[1]

\* What two results must share: everything but the random block ids.
SameAllocation(r1, r2) ==
    /\ Len(r1.blocks) = Len(r2.blocks)
    /\ \A i \in 1..Len(r1.blocks) :
          /\ i \in 1..Len(r2.blocks)
          /\ r1.blocks[i].start = r2.blocks[i].start
          /\ r1.blocks[i].end = r2.blocks[i].end
          /\ r1.blocks[i].type = r2.blocks[i].type
          /\ r1.blocks[i].label = r2.blocks[i].label
          /\ r1.blocks[i].isReduced = r2.blocks[i].isReduced
    /\ r1.tradeoffs = r2.tradeoffs
    /\ r1.warnings = r2.warnings

ScenarioConfig(intensity) ==
    [wakeTime |-> <<7, 0>>, targetSleepTime |-> <<23, 0>>,
     intensity |-> intensity, date |-> 0]

ScenarioA == called /\ tasks = <<>> /\ config = ScenarioConfig("low")

LabelTexts(blocks) == [i \in 1..Len(blocks) |-> blocks[i].label.text]

Durations(blocks) == [i \in 1..Len(blocks) |-> Duration(blocks[i])]

PlainWork == NewTask("Write report", "work", <<>>, <<>>)

ScenarioB == called /\ tasks = WithIds(<<PlainWork>>) /\ config = ScenarioConfig("medium")

isMealBlock(b) == b.type = "meal"

ScenarioC ==
    /\ called
    /\ tasks = WithIds(<<PlainWork, PlainWork, PlainWork>>)
    /\ config = ScenarioConfig("high")

\* C9: with three work tasks of the default 90 minutes, wake 07:00, target
\* sleep 23:00 and high intensity, the output has exactly two break blocks,
\* each between two consecutive work blocks and each 10 minutes long, and the
\* sleep is not adjusted unless the break blocks are marked reduced.
C9_ScenarioC ==
    ScenarioC =>
        /\ Len(breakBlocksOf(result)) = 2
        /\ \A i \in 1..Len(result.blocks) :
              result.blocks[i].type = "break" =>
                  /\ i > 1 /\ i < Len(result.blocks)
                  /\ result.blocks[i - 1].type = "work"
                  /\ result.blocks[i + 1].type = "work"
                  /\ result.blocks[i + 1].taskId[1] = result.blocks[i - 1].taskId[1] + 1
                  /\ Duration(result.blocks[i]) = M(10)
        /\ (sleepBlockOf(result).isReduced \/ result.stats.sleepReduced
              \/ Some(result.tradeoffs, LAMBDA m : m.text = TradeSleep)) =>
               \A i \in 1..Len(breakBlocksOf(result)) : breakBlocksOf(result)[i].isReduced

\* Scenario C was run and returned its three work blocks.
C9_Witness == ScenarioC /\ Len(workBlocksOf(result)) = 3

hoursToMinutes(h) == (h * M(60)) \div HourDen

RangeMessage(intensity) ==
    CASE intensity = "low" -> Msg(TradeRangeMin)
      [] intensity = "medium" -> Msg(TradeRangeMid)
      [] intensity = "high" -> Msg(TradeRangeMax)

\* C10: a work task with both minHours and maxHours gets a block of
\* minHours*60 minutes at low intensity, of the midpoint rounded to the
\* nearest whole minute at medium and of maxHours*60 at high (120 / 180 /
\* 240 minutes for 2-4 h); a work task missing either bound gets 90 minutes;
\* and when a ranged work task exists the tradeoffs name the minimum at low,
\* the midpoint at medium and the maximum at high.
C10_WorkDurationResolution ==
    called =>
        /\ \A i \in 1..Len(result.blocks) :
              LET b == result.blocks[i]
                  t == tasks[b.taskId[1]]
                  mn == hoursToMinutes(t.minHours[1])
                  mx == hoursToMinutes(t.maxHours[1])
              IN  b.type = "work" =>
                    IF t.minHours # <<>> /\ t.maxHours # <<>>
                    THEN /\ config.intensity = "low" => Duration(b) = mn
                         /\ config.intensity = "high" => Duration(b) = mx
                         /\ config.intensity = "medium" =>
                               /\ Duration(b) % M(1) = 0
                               /\ Abs(2 * Duration(b) - (mn + mx)) <= M(1)
                         /\ (t.minHours = <<2 * HourDen>> /\ t.maxHours = <<4 * HourDen>>) =>
                               Duration(b) = CASE config.intensity = "low" -> M(120)
                                               [] config.intensity = "medium" -> M(180)
                                               [] config.intensity = "high" -> M(240)
                    ELSE Duration(b) = M(90)
        /\ (\E i \in 1..Len(tasks) : tasks[i].type = "work" /\ hasRange(tasks[i])) =>
              Some(result.tradeoffs, LAMBDA m : m = RangeMessage(config.intensity))

\* A call at medium intensity returned the block of a ranged work task whose
\* midpoint is not a whole minute, next to the block of a work task that
\* declares only minHours.
C10_Witness ==
    /\ called
    /\ config.intensity = "medium"
    /\ \E i \in 1..Len(tasks) :
          /\ tasks[i].type = "work" /\ hasRange(tasks[i])
          /\ (hoursToMinutes(tasks[i].minHours[1]) + hoursToMinutes(tasks[i].maxHours[1]))
                % M(2) # 0
    /\ \E i \in 1..Len(tasks) :
          tasks[i].type = "work" /\ tasks[i].minHours # <<>> /\ tasks[i].maxHours = <<>>
    /\ Len(workBlocksOf(result)) >= 2

\* C11: with an empty task list, whatever the wake time, the target sleep
\* time and the intensity, the returned warnings list is empty.
C11_NoTasksNoWarnings == (called /\ tasks = <<>>) => result.warnings = <<>>

\* The minutes between the wake time and the target sleep time of the config,
\* both taken on the reference date.
windowOfConfig ==
    M(config.targetSleepTime[1] * 60 + config.targetSleepTime[2]) - wakeOfConfig

\* The flexible time left after the break reduction (at most half of the
\* break budget) and, at high intensity, the sleep borrowing (at most 60
\* minutes).
remainingFlexible ==
    LET a == alloc
        budget == a.breaksNeeded * INTENSITY_CONFIG[config.intensity].breakDuration
        f0 == windowOfConfig - a.totalWorkMinutes - a.totalEssentialMinutes
                - budget - M(60)
        f1 == IF f0 < 0 THEN f0 + MinOf(-f0, budget \div 2) ELSE f0
    IN  IF f1 < 0 /\ config.intensity = "high" THEN f1 + MinOf(-f1, M(60)) ELSE f1

blocksOfTask(r, id) == Filter(r.blocks, LAMBDA b : b.taskId = <<id>>)

\* C12: the warnings list has one entry exactly when the flexible time is
\* still negative after the break reduction and the sleep borrowing, and is
\* empty otherwise; in both cases the block list is complete: it has a block
\* for every work, essential and movement task and ends in a sleep block
\* that ends 24 hours after the wake time.
C12_WarningIffUnresolved ==
    called =>
        /\ Len(result.warnings) = (IF remainingFlexible < 0 THEN 1 ELSE 0)
        /\ sleepBlockOf(result).type = "sleep"
        /\ sleepBlockOf(result).end = wakeOfConfig + M(24 * 60)
        /\ Len(sleepBlocksOf(result)) = 1
        /\ \A i \in 1..Len(tasks) :
              (isWork(tasks[i]) \/ isEssential(tasks[i])) =>
                  Len(blocksOfTask(result, tasks[i].id)) = 1

\* A call at high intensity returned a warning after both the breaks and the
\* sleep were reduced, with a block for each of its three tasks.
C12_Witness ==
    /\ called
    /\ config.intensity = "high"
    /\ remainingFlexible < 0
    /\ Len(result.warnings) = 1
    /\ Len(breakBlocksOf(result)) > 0
    /\ \A i \in 1..Len(breakBlocksOf(result)) : breakBlocksOf(result)[i].isReduced
    /\ sleepBlockOf(result).isReduced
    /\ Len(tasks) = 3
    /\ \E i \in 1..Len(tasks) : isEssential(tasks[i])

\* A call returned without a warning because the reductions covered the
\* shortfall exactly.
C12_WitnessResolved ==
    /\ called
    /\ remainingFlexible = 0
    /\ alloc.initialFlexibleTime < 0
    /\ result.warnings = <<>>

hasTradeoff(r, text) == Some(r.tradeoffs, LAMBDA m : m.text = text)

phoneBlocksOf(r) == Filter(r.blocks, isPhoneBlock)

\* The leisure blocks other than the Evening Wind-down.
leisureBlocksOf(r) ==
    Filter(r.blocks, LAMBDA b : isLeisureBlock(b) /\ b.label # Label("Evening Wind-down"))

\* C13: at every intensity each compression applied has its tradeoff
\* message: shortened breaks, a reduced or missing phone block for a
\* requested phone/social task, a reduced or missing leisure block for a
\* requested leisure task, and borrowed sleep.
C13_CompressionsSurfaced ==
    called =>
        /\ Some(result.blocks, LAMBDA b : isBreakBlock(b) /\ b.isReduced) =>
              hasTradeoff(result, TradeBreaks)
        /\ (\/ Some(result.blocks, LAMBDA b : isPhoneBlock(b) /\ b.isReduced)
            \/ (Some(tasks, isPhone) /\ phoneBlocksOf(result) = <<>>)) =>
              (hasTradeoff(result, TradePhoneMin) \/ hasTradeoff(result, TradePhoneLimited))
        /\ (\/ Some(result.blocks, LAMBDA b : isLeisureBlock(b) /\ b.isReduced)
            \/ (Some(tasks, isLeisure) /\ leisureBlocksOf(result) = <<>>)) =>
              hasTradeoff(result, TradeLeisure)
        /\ sleepBlockOf(result).isReduced => hasTradeoff(result, TradeSleep)

\* C14: every task of type essential or movement has exactly one block
\* carrying its taskId; that block has the task's type, lasts the task's
\* estimatedMinutes and is not marked reduced, at every intensity and whatever
\* the sign of the flexible time.
C14_EssentialNeverReduced ==
    called =>
        \A i \in 1..Len(tasks) :
            isEssential(tasks[i]) =>
                /\ Len(blocksOfTask(result, tasks[i].id)) = 1
                /\ \A k \in 1..Len(blocksOfTask(result, tasks[i].id)) :
                      LET b == blocksOfTask(result, tasks[i].id)[k]
                      IN  /\ b.type = tasks[i].type
                          /\ b.end - b.start = tasks[i].estimatedMinutes
                          /\ ~b.isReduced
                          /\ b.originalMinutes = <<>>

\* A call returned the blocks of an essential and of a movement task for a
\* day that stayed over-allocated after the breaks were reduced.
C14_Witness ==
    /\ called
    /\ remainingFlexible < 0
    /\ alloc.breaksReduced
    /\ \E i \in 1..Len(tasks) :
          tasks[i].type = "essential" /\ Len(blocksOfTask(result, tasks[i].id)) = 1
    /\ \E i \in 1..Len(tasks) :
          tasks[i].type = "movement" /\ Len(blocksOfTask(result, tasks[i].id)) = 1

RECURSIVE SumSpans(_)
SumSpans(blocks) ==
    IF blocks = <<>> THEN 0
    ELSE (Head(blocks).end - Head(blocks).start) + SumSpans(Tail(blocks))

\* C15: the statistics equal what the returned blocks show: the minutes of
\* work, break, phone/social and leisure (wind-down included) are the sums of
\* end - start over the blocks of that type, sleepHours is end - start of the
\* sleep block, and sleepReduced is the isReduced flag of the sleep block.
C15_StatsReflectBlocks ==
    called =>
        /\ result.stats.totalWorkMinutes = SumSpans(Filter(result.blocks, isWorkBlock))
        /\ result.stats.totalBreakMinutes = SumSpans(Filter(result.blocks, isBreakBlock))
        /\ result.stats.totalPhoneMinutes = SumSpans(Filter(result.blocks, isPhoneBlock))
        /\ result.stats.totalLeisureMinutes = SumSpans(Filter(result.blocks, isLeisureBlock))
        /\ result.stats.sleepHours = SumSpans(Filter(result.blocks, isSleepBlock))
        /\ result.stats.sleepReduced = sleepBlockOf(result).isReduced

\* C16: at high intensity, when sleep is borrowed, the window from the
\* adjusted target sleep time to wake + 24h is at least the 6.5-hour floor.
C16_BorrowingClamped ==
    (called /\ config.intensity = "high" /\ result.stats.sleepReduced) =>
        (wakeOfConfig + M(24 * 60)) - alloc.targetSleep
            >= INTENSITY_CONFIG["high"].minSleepHours

inLunchWindow(date) == getHours(date) >= 12 /\ getHours(date) < 14

\* The layout cursor when the iteration of the work loop that pushed the
\* work block at position i began: the start of the Lunch block inserted
\* before it, if any, and the start of the work block otherwise.
startCursorOf(blocks, i) ==
    IF i > 1 /\ isMealBlock(blocks[i - 1]) THEN blocks[i - 1].start ELSE blocks[i].start

noWorkCursorInWindow(blocks) ==
    \A i \in 1..Len(blocks) :
        isWorkBlock(blocks[i]) => ~inLunchWindow(startCursorOf(blocks, i))

isTaskBlockOf(b, Test(_)) ==
    b.taskId # <<>> /\ b.taskId[1] \in 1..Len(tasks) /\ Test(tasks[b.taskId[1]])

\* C17 as stated: when no work task's start cursor falls in the noon-to-14:00
\* window, a Lunch block exists, it comes after every essential/movement task
\* block and immediately after the last of them, and before every phone and
\* leisure block.
C17_LunchAfterEssential_Stated ==
    (called /\ noWorkCursorInWindow(result.blocks)) =>
        \E k \in 1..Len(result.blocks) :
            /\ isMealBlock(result.blocks[k])
            /\ \A i \in 1..Len(result.blocks) :
                  /\ isTaskBlockOf(result.blocks[i], isEssential) => i < k
                  /\ (isPhoneBlock(result.blocks[i]) \/ isLeisureBlock(result.blocks[i])) => k < i
            /\ Some(tasks, isEssential) => isTaskBlockOf(result.blocks[k - 1], isEssential)

\* C17 (amended): when no work task's start cursor falls in the noon-to-14:00
\* window, the Lunch block is placed immediately after the last work block
\* (after the Morning Routine when there is no work task) and before every
\* essential/movement, phone and leisure block; when a work block is itself
\* labelled "Lunch" no Lunch block is placed at all.
C17_LunchAfterWork ==
    (called /\ noWorkCursorInWindow(result.blocks)) =>
        IF Some(result.blocks, LAMBDA b : isWorkBlock(b) /\ isLunch(b))
        THEN ~Some(result.blocks, isMealBlock)
        ELSE \E k \in 2..Len(result.blocks) :
                /\ isMealBlock(result.blocks[k]) /\ isLunch(result.blocks[k])
                /\ Len(Filter(result.blocks, isMealBlock)) = 1
                /\ IF Some(tasks, isWork)
                   THEN isWorkBlock(result.blocks[k - 1])
                   ELSE k = 2 /\ result.blocks[1].label = Label("Morning Routine")
                /\ \A i \in 1..Len(result.blocks) :
                      /\ isWorkBlock(result.blocks[i]) => i < k
                      /\ isTaskBlockOf(result.blocks[i], isEssential) => k < i
                      /\ (isPhoneBlock(result.blocks[i]) \/ isLeisureBlock(result.blocks[i]))
                            => k < i

\* A call returned a schedule with work blocks, none of which began in the
\* lunch window, an essential task block and a phone block, and a Lunch block.
C17_Witness ==
    /\ called
    /\ noWorkCursorInWindow(result.blocks)
    /\ Len(workBlocksOf(result)) >= 1
    /\ Some(result.blocks, LAMBDA b : isTaskBlockOf(b, isEssential))
    /\ phoneBlocksOf(result) # <<>>
    /\ Some(result.blocks, isMealBlock)

\* A Lunch block inserted in the work loop: a meal block followed by a work
\* block.
isLunchInLoop(blocks, k) ==
    k < Len(blocks) /\ isMealBlock(blocks[k]) /\ isWorkBlock(blocks[k + 1])

\* The work block at position i is the first whose start cursor is in the
\* lunch window.
isFirstInWindow(blocks, i) ==
    /\ isWorkBlock(blocks[i])
    /\ inLunchWindow(startCursorOf(blocks, i))
    /\ \A j \in 1..(i - 1) :
          isWorkBlock(blocks[j]) => ~inLunchWindow(startCursorOf(blocks, j))

\* C18: a Lunch block is inserted immediately before the first work block
\* whose start cursor has local hour h with 12 <= h < 14, nowhere else in the
\* work sequence and at most once; when no work block's start cursor is in
\* the window (the cursor passed from before 12:00 to 14:00 or later within
\* one iteration) no Lunch block is inserted in the work sequence.
C18_LunchAtFirstCursorInWindow ==
    called =>
        /\ \A i \in 2..Len(result.blocks) :
              isFirstInWindow(result.blocks, i) => isLunchInLoop(result.blocks, i - 1)
        /\ \A k \in 1..Len(result.blocks) :
              isLunchInLoop(result.blocks, k) => isFirstInWindow(result.blocks, k + 1)

\* The per-break length of a run: the intensity's break duration (20, 15 or
\* 10 minutes), or 60% of it rounded to a whole minute (12, 9 or 6) when the
\* breaks of the run are reduced.
perBreakLength(intensity, reduced) ==
    CASE intensity = "low" -> IF reduced THEN M(12) ELSE M(20)
      [] intensity = "medium" -> IF reduced THEN M(9) ELSE M(15)
      [] intensity = "high" -> IF reduced THEN M(6) ELSE M(10)

\* C19: with n work tasks the output has exactly max(0, n - 1) break blocks;
\* a break block follows a work block immediately exactly when that work
\* block is not the last one, every break block is immediately preceded by a
\* work block, and a break lasts the per-break length of the run plus 5
\* minutes exactly when the work block before it is longer than 120 minutes.
C19_BreaksBetweenWork ==
    called =>
        LET blocks == result.blocks
            n == Len(Filter(tasks, isWork))
            reduced == alloc.breaksReduced
        IN  /\ Len(breakBlocksOf(result)) = MaxOf(0, n - 1)
            /\ \A i \in 1..(Len(blocks) - 1) :
                  isWorkBlock(blocks[i]) =>
                      (isBreakBlock(blocks[i + 1])
                          <=> \E j \in (i + 1)..Len(blocks) : isWorkBlock(blocks[j]))
            /\ \A i \in 1..Len(blocks) :
                  isBreakBlock(blocks[i]) =>
                      /\ i > 1
                      /\ isWorkBlock(blocks[i - 1])
                      /\ blocks[i].isReduced = reduced
                      /\ blocks[i].end - blocks[i].start =
                            perBreakLength(config.intensity, blocks[i].isReduced)
                            + (IF blocks[i - 1].end - blocks[i - 1].start > M(120)
                               THEN M(5) ELSE 0)

\* A call returned two breaks, one after a work block of exactly 120 minutes
\* and one after a longer work block.
C19_Witness ==
    /\ called
    /\ Len(breakBlocksOf(result)) = 2
    /\ \E i \in 2..Len(result.blocks) :
          /\ isBreakBlock(result.blocks[i])
          /\ result.blocks[i - 1].end - result.blocks[i - 1].start = M(120)
    /\ \E i \in 2..Len(result.blocks) :
          /\ isBreakBlock(result.blocks[i])
          /\ result.blocks[i - 1].end - result.blocks[i - 1].start > M(120)

\* Phone and leisure minutes as the allocation rule gives them for a flexible
\* time f: min(maximum of the intensity, 30% of f) and min(maximum of the
\* intensity, 50% of f less phone) when f > 0, and zero otherwise.
maxPhoneOf(intensity) ==
    CASE intensity = "low" -> M(60) [] intensity = "medium" -> M(30)
      [] intensity = "high" -> M(15)

maxLeisureOf(intensity) ==
    CASE intensity = "low" -> M(120) [] intensity = "medium" -> M(60)
      [] intensity = "high" -> M(30)

phoneOfFlexible(f) ==
    IF f > 0 THEN MinOf(maxPhoneOf(config.intensity), (3 * f) \div 10) ELSE 0

leisureOfFlexible(f) ==
    IF f > 0
    THEN MinOf(maxLeisureOf(config.intensity), (f - phoneOfFlexible(f)) \div 2)
    ELSE 0

expectedPhone == LET f == remainingFlexible IN phoneOfFlexible(f)

expectedLeisure == LET f == remainingFlexible IN leisureOfFlexible(f)

flexibleAfterBreakCutOf(a) ==
    LET budget == a.breaksNeeded * INTENSITY_CONFIG[config.intensity].breakDuration
        f0 == windowOfConfig - a.totalWorkMinutes - a.totalEssentialMinutes
                - budget - M(60)
    IN  IF f0 < 0 THEN f0 + MinOf(-f0, budget \div 2) ELSE f0

flexibleAfterBreakCut == LET a == alloc IN flexibleAfterBreakCutOf(a)

\* The minutes borrowed from sleep: at high intensity the shortfall left by
\* the break reduction, at most 60; nothing otherwise.
expectedBorrow ==
    LET f1 == flexibleAfterBreakCut
    IN  IF f1 < 0 /\ config.intensity = "high" THEN MinOf(-f1, M(60)) ELSE 0

\* The target sleep time after the borrowing.
expectedTargetSleep == wakeOfConfig + windowOfConfig + expectedBorrow

isWindDown(b) == b.label = Label("Evening Wind-down")

C23_SleepBorrowing ==
    called =>
        LET a == alloc
            moved == a.targetSleep - (wakeOfConfig + windowOfConfig)
            f1 == flexibleAfterBreakCutOf(a)
        IN  /\ sleepBlockOf(result).isReduced = result.stats.sleepReduced
            /\ config.intensity # "high" =>
                  /\ ~sleepBlockOf(result).isReduced
                  /\ ~result.stats.sleepReduced
                  /\ moved = 0
                  /\ ~hasTradeoff(result, TradeSleep)
            /\ config.intensity = "high" =>
                  /\ moved = (IF f1 < 0 THEN MinOf(-f1, M(60)) ELSE 0)
                  /\ moved >= 0 /\ moved <= M(60)
                  /\ result.stats.sleepReduced <=> f1 < 0
                  /\ hasTradeoff(result, TradeSleep) <=> f1 < 0

\* A call at medium intensity returned an unreduced sleep block for a day
\* that stayed over-allocated after the break reduction.
C23_Witness ==
    /\ called
    /\ config.intensity = "medium"
    /\ flexibleAfterBreakCut < 0
    /\ Len(breakBlocksOf(result)) > 0
    /\ ~sleepBlockOf(result).isReduced
    /\ result.warnings # <<>>

\* A call at high intensity borrowed less than 60 minutes of sleep.
C23_WitnessHigh ==
    /\ called
    /\ config.intensity = "high"
    /\ result.stats.sleepReduced
    /\ alloc.targetSleep - (wakeOfConfig + windowOfConfig) < M(60)

\* The place of a block in the fixed layout order; the Lunch block (type
\* meal) has no place of its own.
rankOf(b) ==
    CASE b.label = Label("Morning Routine") /\ b.taskId = <<>> -> 0
      [] isWorkBlock(b) \/ isBreakBlock(b) -> 1
      [] isTaskBlockOf(b, isEssential) -> 2
      [] isPhoneBlock(b) -> 3
      [] isLeisureBlock(b) /\ ~isWindDown(b) -> 4
      [] isWindDown(b) -> 5
      [] isSleepBlock(b) -> 6
      [] OTHER -> 7

\* C24: the first block is a 30-minute Morning Routine starting at the wake
\* time; then come the work blocks with their breaks, in the order of the
\* work tasks in the input; then the essential/movement blocks, in input
\* order; then the phone block, the leisure block and the wind-down; the last
\* block is the only sleep block.  The Lunch block is the only other block.
C24_FixedOrder ==
    called =>
        LET blocks == result.blocks
            n == Len(blocks)
            laid == Filter(blocks, LAMBDA b : ~isMealBlock(b))
            m == Len(laid)
            rank == [i \in 1..m |-> rankOf(laid[i])]
            ofTasks == Filter(laid, LAMBDA b : b.taskId # <<>>)
        IN  /\ blocks[1] = laid[1]
            /\ rank[1] = 0
            /\ blocks[1].start = wakeOfConfig
            /\ blocks[1].end - blocks[1].start = M(30)
            /\ blocks[n] = laid[m]
            /\ rank[m] = 6
            /\ \A i \in 1..(m - 1) :
                  /\ rank[i] <= rank[i + 1]
                  /\ rank[i + 1] < 7
                  /\ rank[i] = rank[i + 1] => rank[i] \in {1, 2}
            /\ \A i \in 1..(Len(ofTasks) - 1) :
                  \/ isWorkBlock(ofTasks[i]) /\ ~isWorkBlock(ofTasks[i + 1])
                  \/ ofTasks[i].taskId[1] < ofTasks[i + 1].taskId[1]

\* A call returned work blocks, essential blocks, a phone block, a leisure
\* block and a wind-down for tasks given with an essential task before a
\* work task.
C24_Witness ==
    /\ called
    /\ Len(tasks) = 3
    /\ isEssential(tasks[1]) /\ isWork(tasks[2])
    /\ phoneBlocksOf(result) # <<>>
    /\ leisureBlocksOf(result) # <<>>
    /\ Some(result.blocks, isWindDown)

\* C25: every generated schedule contains exactly one block of type meal, the
\* 30-minute Lunch, whatever the input tasks and their titles are.
C25_ExactlyOneMeal ==
    called =>
        LET meals == Filter(result.blocks, isMealBlock)
        IN  /\ Len(meals) = 1
            /\ isLunch(meals[1])
            /\ meals[1].end - meals[1].start = M(30)

\* C26: the break time laid out equals the break time budgeted: the sum of
\* the durations of the break blocks equals the final totalBreakMinutes, the
\* number of budgeted breaks times the break duration of the intensity minus
\* the break reduction applied.
C26_BreaksLaidOutEqualBudget ==
    called =>
        LET a == alloc
        IN  /\ a.totalBreakMinutes
                  = a.breaksNeeded * INTENSITY_CONFIG[config.intensity].breakDuration
                      - a.breakReduction
            /\ SumSpans(breakBlocksOf(result)) = a.totalBreakMinutes

\* C27: every break, phone or leisure block that has isReduced = TRUE and an
\* originalMinutes value lasts strictly less than its originalMinutes.
C27_ReducedBlocksShorter ==
    called =>
        \A i \in 1..Len(result.blocks) :
            LET b == result.blocks[i]
            IN  ((isBreakBlock(b) \/ isPhoneBlock(b) \/ isLeisureBlock(b))
                    /\ b.isReduced /\ b.originalMinutes # <<>>)
                  => b.end - b.start < b.originalMinutes[1]

\* C28: when the warnings list is empty the day fits its window: the sleep
\* block starts no later than the target sleep time after any sleep
\* borrowing, so it lasts at least from that time to wake + 24h.
C28_NoWarningFitsWindow ==
    (called /\ result.warnings = <<>>) =>
        LET a == alloc
            sleep == sleepBlockOf(result)
        IN  /\ isSleepBlock(sleep)
            /\ sleep.start <= a.targetSleep
            /\ sleep.end - sleep.start >= a.wakeDate + M(24 * 60) - a.targetSleep

\* C29 as stated: each input task of a user-creatable type has exactly one
\* block whose taskId is its id, and every taskId on a block is the id of an
\* input task.
C29_EveryTaskOneBlock_Stated ==
    called =>
        /\ \A i \in 1..Len(tasks) : Len(blocksOfTask(result, tasks[i].id)) = 1
        /\ \A k \in 1..Len(result.blocks) :
              result.blocks[k].taskId # <<>> =>
                  \E i \in 1..Len(tasks) : result.blocks[k].taskId = <<tasks[i].id>>

\* C29 (amended): each work, essential or movement task has exactly one
\* block whose taskId is its id, of the task's type; a phone, social or
\* leisure task has no block with its id: the whole category gets at most one
\* phone block and at most one leisure block, without taskId; every taskId on
\* a block is the id of an input task.
C29_TaskBlocks ==
    called =>
        /\ \A i \in 1..Len(tasks) :
              LET own == blocksOfTask(result, tasks[i].id)
              IN  IF isWork(tasks[i]) \/ isEssential(tasks[i])
                  THEN Len(own) = 1 /\ own[1].type = tasks[i].type
                  ELSE own = <<>>
        /\ Len(phoneBlocksOf(result)) <= 1
        /\ Len(leisureBlocksOf(result)) <= 1
        /\ \A k \in 1..Len(result.blocks) :
              LET b == result.blocks[k]
              IN  /\ (isPhoneBlock(b) \/ isLeisureBlock(b)) => b.taskId = <<>>
                  /\ b.taskId # <<>> =>
                        \E i \in 1..Len(tasks) : b.taskId = <<tasks[i].id>>

\* A call with a work task, a phone task and a leisure task returned a work
\* block with the work task's id, and a phone block and a leisure block
\* labelled with the tasks' titles and without taskId.
C29_Witness ==
    /\ called
    /\ \E i, j, k \in 1..Len(tasks) :
          /\ isWork(tasks[i]) /\ isPhone(tasks[j]) /\ isLeisure(tasks[k])
          /\ Len(blocksOfTask(result, tasks[i].id)) = 1
          /\ \E p, l \in 1..Len(result.blocks) :
                /\ isPhoneBlock(result.blocks[p])
                /\ result.blocks[p].label = Label(tasks[j].title)
                /\ result.blocks[p].taskId = <<>>
                /\ isLeisureBlock(result.blocks[l])
                /\ result.blocks[l].label = Label(tasks[k].title)
                /\ result.blocks[l].taskId = <<>>

\* ------------------------------------------------------------------------
\* Properties of the store
\* ------------------------------------------------------------------------
\* A block without its id and its completion mark.
contentOf(b) ==
    [start |-> b.start, end |-> b.end, label |-> b.label, type |-> b.type,
     taskId |-> b.taskId, isReduced |-> b.isReduced,
     originalMinutes |-> b.originalMinutes]

\* What a schedule is generated from.
inputsOf(plan) == <<plan.tasks, plan.intensity, plan.wakeTime, plan.sleepTime>>

\* The blocks, tradeoffs and warnings of the plan are those of a schedule
\* generated from the plan as it is now.
isFresh(plan) ==
    \A r \in { generateSchedule(schedulerTasksOf(plan), schedulerConfigOf(plan)) } :
        /\ Len(plan.blocks) = Len(r.blocks)
        /\ \A i \in 1..Len(r.blocks) : contentOf(plan.blocks[i]) = contentOf(r.blocks[i])
        /\ plan.tradeoffs = r.tradeoffs
        /\ plan.warnings = r.warnings

C30_FreshPlans ==
    \A d \in DOMAIN store.dayPlans :
        LET plan == store.dayPlans[d]
        IN  plan.isGenerated =>
              /\ plan.tasks # <<>>
              /\ isFresh(plan)
              /\ \A i \in 1..Len(plan.blocks) :
                    plan.blocks[i].taskId # <<>> =>
                        plan.blocks[i].taskId[1] \in taskIdsOf(store, d)

C30_Step ==
    \A d \in DOMAIN store'.dayPlans :
        LET after == store'.dayPlans[d]
            wasGenerated == hasPlan(store, d) /\ store.dayPlans[d].isGenerated
            changed == ~hasPlan(store, d) \/ inputsOf(store.dayPlans[d]) # inputsOf(after)
        IN  /\ changed => ~after.isGenerated
            /\ (after.isGenerated /\ ~wasGenerated) =>
                  /\ after.tasks # <<>>
                  /\ store' = storeGenerateSchedule(store, d)
                        \/ store' = regenerateSchedule(store, d)

\* C30: store freshness.  In every reachable state of the store a plan with
\* isGenerated = TRUE has at least one task, its blocks, tradeoffs and
\* warnings are those generated from its current tasks, intensity, wake time
\* and sleep time, and every taskId of its blocks is the id of one of its
\* tasks; every step that changes the tasks, intensity, wake time or sleep
\* time of a plan leaves isGenerated FALSE, and isGenerated becomes TRUE only
\* by generateSchedule (directly or from regenerateSchedule) on a plan with
\* at least one task.
C30_StoreFreshness == []C30_FreshPlans /\ [][C30_Step]_vars

\* A generated plan at a chosen intensity whose first task was added after
\* another task was removed, with a block marked complete.
C30_Witness ==
    \E d \in DOMAIN store.dayPlans :
        LET plan == store.dayPlans[d]
        IN  /\ plan.isGenerated
            /\ plan.intensity = "high"
            /\ plan.tasks # <<>> /\ plan.tasks[1].id > 1
            /\ \E i \in 1..Len(plan.blocks) :
                  plan.blocks[i].taskId # <<>> /\ plan.blocks[i].isCompleted = <<TRUE>>

====
